---------------------------- MODULE Spec2Model ----------------------------
(***************************************************************************)
(* Model of noncon2: the workbook reader (src/excel_loader.py), the tag    *)
(* store (src/database.py) and the request handlers (src/app.py).          *)
(*                                                                         *)
(* Text is modelled as a sequence of one-character strings, so that        *)
(* trimming, case folding, substring search, number parsing and date       *)
(* formatting are computed character by character, as the code does.       *)
(* A value that can be absent or raise is a record with a "kind" field:    *)
(*   [kind |-> "None"], [kind |-> "str", s |-> text],                      *)
(*   [kind |-> "raise", exc |-> exception name].                           *)
(***************************************************************************)
EXTENDS Integers, Sequences, FiniteSets, TLC

VARIABLES
    value,      \* SpecSerial: the argument of excel_serial_to_iso
    iso,        \* SpecSerial: what excel_serial_to_iso returned
    spc,        \* SpecSerial: "call" before the call, "done" after it
    zf,         \* the archive load reads: its parts, as parsed XML
    pc,         \* where load is: the stage to run next, "returned" or "raised"
    zip_open,   \* whether the ZipFile of the with block is open
    shared_strings,      \* self._shared_strings
    sheet_targets,       \* the name -> part path dict, in insertion order
    log_sheet_path,
    dropdown_sheet_path,
    records,
    result,     \* what load returned: None, or the ExcelData
    error,      \* the exception load raised, "" when none
    excel_file, \* the workbook at EXCEL_PATH
    tags,       \* the rows of the tags table, in rowid order
    last_id,    \* the sqlite_sequence entry of tags (AUTOINCREMENT)
    dropdown_options,    \* the (field, value) rows of dropdown_options
    rpc,        \* where the request is: "before", "loading" or "route"
    needs,      \* needs_seed and needs_dropdowns of ensure_bootstrap_data
    requests,   \* how many requests have begun
    response,   \* how the last request ended, "" before the first
    deleted     \* history: the tag numbers delete_tag has removed

serial_vars == <<value, iso, spc>>

load_vars ==
    <<zf, pc, zip_open, shared_strings, sheet_targets, log_sheet_path,
      dropdown_sheet_path, records, result, error>>

app_vars ==
    <<excel_file, tags, last_id, dropdown_options, rpc, needs, requests,
      response, deleted>>

vars == <<serial_vars, load_vars, app_vars>>

----------------------------------------------------------------------------
(* Results of calls *)

None == [kind |-> "None"]
Str(s) == [kind |-> "str", s |-> s]
Raise(e) == [kind |-> "raise", exc |-> e]

\* F applied to the value of x, which is evaluated once
With(x, F(_)) == CHOOSE r \in {F(v) : v \in {x}} : TRUE

----------------------------------------------------------------------------
(* Text helpers: str.strip, str.lower, startswith, the "in" operator *)

Whitespace == {" ", "\t", "\n"}

Digits == {"0", "1", "2", "3", "4", "5", "6", "7", "8", "9"}

UpperLetters ==
    {"A", "B", "C", "D", "E", "F", "G", "H", "I", "J", "K", "L", "M",
     "N", "O", "P", "Q", "R", "S", "T", "U", "V", "W", "X", "Y", "Z"}

DigitVal(c) ==
    CASE c = "0" -> 0 [] c = "1" -> 1 [] c = "2" -> 2 [] c = "3" -> 3
      [] c = "4" -> 4 [] c = "5" -> 5 [] c = "6" -> 6 [] c = "7" -> 7
      [] c = "8" -> 8 [] c = "9" -> 9

DigitChar(n) ==
    CASE n = 0 -> "0" [] n = 1 -> "1" [] n = 2 -> "2" [] n = 3 -> "3"
      [] n = 4 -> "4" [] n = 5 -> "5" [] n = 6 -> "6" [] n = 7 -> "7"
      [] n = 8 -> "8" [] n = 9 -> "9"

LowerChar(c) ==
    CASE c = "A" -> "a" [] c = "B" -> "b" [] c = "C" -> "c" [] c = "D" -> "d"
      [] c = "E" -> "e" [] c = "F" -> "f" [] c = "G" -> "g" [] c = "H" -> "h"
      [] c = "I" -> "i" [] c = "J" -> "j" [] c = "K" -> "k" [] c = "L" -> "l"
      [] c = "M" -> "m" [] c = "N" -> "n" [] c = "O" -> "o" [] c = "P" -> "p"
      [] c = "Q" -> "q" [] c = "R" -> "r" [] c = "S" -> "s" [] c = "T" -> "t"
      [] c = "U" -> "u" [] c = "V" -> "v" [] c = "W" -> "w" [] c = "X" -> "x"
      [] c = "Y" -> "y" [] c = "Z" -> "z" [] OTHER -> c

lower(s) == [i \in 1..Len(s) |-> LowerChar(s[i])]

\* str.strip(): drop the leading and the trailing whitespace characters
strip(s) ==
    LET keep == {i \in 1..Len(s) : s[i] \notin Whitespace}
    IN  IF keep = {} THEN <<>>
        ELSE LET lo == CHOOSE i \in keep : \A j \in keep : i <= j
                 hi == CHOOSE i \in keep : \A j \in keep : j <= i
             IN  SubSeq(s, lo, hi)

startswith(s, prefix) ==
    /\ Len(prefix) <= Len(s)
    /\ SubSeq(s, 1, Len(prefix)) = prefix

\* needle in s
contains(s, needle) ==
    \E i \in 1..(Len(s) - Len(needle) + 1) :
        SubSeq(s, i, i + Len(needle) - 1) = needle

\* index of the first character of s that is in set, 0 when there is none
FirstIn(s, set) ==
    LET hits == {i \in 1..Len(s) : s[i] \in set}
    IN  IF hits = {} THEN 0 ELSE CHOOSE i \in hits : \A j \in hits : i <= j

AllDigits(s) == Len(s) > 0 /\ \A i \in 1..Len(s) : s[i] \in Digits

RECURSIVE DigitsToNat(_)
DigitsToNat(s) ==
    IF s = <<>> THEN 0
    ELSE 10 * DigitsToNat(SubSeq(s, 1, Len(s) - 1)) + DigitVal(s[Len(s)])

StripLeadingZeros(s) ==
    LET nz == {i \in 1..Len(s) : s[i] # "0"}
    IN  IF nz = {} THEN <<>>
        ELSE SubSeq(s, CHOOSE i \in nz : \A j \in nz : i <= j, Len(s))

Zeros(n) == [i \in 1..n |-> "0"]

----------------------------------------------------------------------------
(* float(text) and int(serial), excel_loader.py lines 62 and 66.           *)
(* The grammar covered: [sign] digits [. digits] [e [sign] digits], and    *)
(* [sign] inf | infinity | nan in any case, with surrounding whitespace.   *)
(* A float is kept as its class and, when it is finite and below 10^9 in   *)
(* magnitude, its integer part; a finite float of 10 or more integer       *)
(* digits is "huge" (every such number exceeds timedelta's limit).         *)

\* the largest decimal exponent of a finite double
FloatMaxDigits == 309

\* integer digits from which a number is past timedelta's day limit
HugeDigits == 10

ParseExponent(e) ==
    \* [kind |-> "ok", exp |-> n] or [kind |-> "bad"]
    LET signed == Len(e) > 0 /\ e[1] \in {"+", "-"}
        body   == IF signed THEN SubSeq(e, 2, Len(e)) ELSE e
    IN  IF ~AllDigits(body) THEN [kind |-> "bad"]
        ELSE [kind |-> "ok",
              exp  |-> IF signed /\ e[1] = "-" THEN -DigitsToNat(body)
                       ELSE DigitsToNat(body)]

ParseMantissa(m) ==
    \* [kind |-> "ok", int |-> digits, frac |-> digits] or [kind |-> "bad"]
    LET dot   == FirstIn(m, {"."})
        ipart == IF dot = 0 THEN m ELSE SubSeq(m, 1, dot - 1)
        fpart == IF dot = 0 THEN <<>> ELSE SubSeq(m, dot + 1, Len(m))
        digs(s) == \A i \in 1..Len(s) : s[i] \in Digits
    IN  IF digs(ipart) /\ digs(fpart) /\ Len(ipart) + Len(fpart) > 0
        THEN [kind |-> "ok", int |-> ipart, frac |-> fpart]
        ELSE [kind |-> "bad"]

\* float(text): [kind |-> "ValueError"], "nan", "inf", "huge",
\* or [kind |-> "fin", trunc |-> the integer part, signed]
float(text) ==
    LET t      == strip(text)
        signed == Len(t) > 0 /\ t[1] \in {"+", "-"}
        neg    == signed /\ t[1] = "-"
        body   == IF signed THEN SubSeq(t, 2, Len(t)) ELSE t
        low    == lower(body)
        epos   == FirstIn(low, {"e"})
        mant   == ParseMantissa(IF epos = 0 THEN low ELSE SubSeq(low, 1, epos - 1))
        expo   == IF epos = 0 THEN [kind |-> "ok", exp |-> 0]
                  ELSE ParseExponent(SubSeq(low, epos + 1, Len(low)))
    IN  IF low \in {<<"i", "n", "f">>, <<"i", "n", "f", "i", "n", "i", "t", "y">>}
        THEN [kind |-> "inf"]
        ELSE IF low = <<"n", "a", "n">> THEN [kind |-> "nan"]
        ELSE IF mant.kind = "bad" \/ expo.kind = "bad" THEN [kind |-> "ValueError"]
        ELSE LET m     == StripLeadingZeros(mant.int \o mant.frac)
                 shift == expo.exp - Len(mant.frac)
                 idig  == Len(m) + shift   \* number of integer digits
                 mag   == IF m = <<>> \/ idig <= 0 THEN 0
                          ELSE IF shift >= 0 THEN DigitsToNat(m \o Zeros(shift))
                          ELSE DigitsToNat(SubSeq(m, 1, idig))
             IN  IF m # <<>> /\ idig > FloatMaxDigits THEN [kind |-> "inf"]
                 ELSE IF m # <<>> /\ idig >= HugeDigits THEN [kind |-> "huge"]
                 ELSE [kind |-> "fin", trunc |-> IF neg THEN -mag ELSE mag]

----------------------------------------------------------------------------
(* datetime arithmetic: BASE_DATE + timedelta(days), .date().isoformat()   *)

\* datetime(1899, 12, 30).toordinal()
BASE_DATE == 693594

\* date.max.toordinal(), 9999-12-31; the smallest ordinal is 1, 0001-01-01
MaxOrdinal == 3652059

\* timedelta accepts at most this many days in magnitude
MaxDeltaDays == 999999999

DaysBeforeMonth(month) ==
    CASE month = 1 -> 0 [] month = 2 -> 31 [] month = 3 -> 59
      [] month = 4 -> 90 [] month = 5 -> 120 [] month = 6 -> 151
      [] month = 7 -> 181 [] month = 8 -> 212 [] month = 9 -> 243
      [] month = 10 -> 273 [] month = 11 -> 304 [] month = 12 -> 334

DaysInMonthCommon(month) ==
    CASE month \in {1, 3, 5, 7, 8, 10, 12} -> 31
      [] month \in {4, 6, 9, 11} -> 30
      [] month = 2 -> 28

\* the date of a proleptic Gregorian ordinal (datetime's _ord2ymd)
ord2ymd(ordinal) ==
    LET n0   == ordinal - 1
        n400 == n0 \div 146097
        r400 == n0 % 146097
        n100 == r400 \div 36524
        r100 == r400 % 36524
        n4   == r100 \div 1461
        r4   == r100 % 1461
        n1   == r4 \div 365
        n    == r4 % 365
        year == n400 * 400 + 1 + n100 * 100 + n4 * 4 + n1
        leap == n1 = 3 /\ (n4 # 24 \/ n100 = 3)
        m0   == (n + 50) \div 32
        p0   == DaysBeforeMonth(m0) + (IF m0 > 2 /\ leap THEN 1 ELSE 0)
        month == IF p0 > n THEN m0 - 1 ELSE m0
        prec == IF p0 > n
                THEN p0 - (DaysInMonthCommon(m0 - 1)
                           + (IF m0 - 1 = 2 /\ leap THEN 1 ELSE 0))
                ELSE p0
    IN  IF n1 = 4 \/ n100 = 4
        THEN [y |-> year - 1, m |-> 12, d |-> 31]
        ELSE [y |-> year, m |-> month, d |-> n - prec + 1]

\* "%04d" and "%02d"
Pad(n, width) ==
    [i \in 1..width |->
        LET p == width - i
            pow == CASE p = 0 -> 1 [] p = 1 -> 10 [] p = 2 -> 100 [] p = 3 -> 1000
        IN  DigitChar((n \div pow) % 10)]

isoformat(ymd) ==
    Pad(ymd.y, 4) \o <<"-">> \o Pad(ymd.m, 2) \o <<"-">> \o Pad(ymd.d, 2)

\* the anchor taken as serial 1 instead of serial 0
AddDays_anchor_is_serial_1(days) ==
    IF days > MaxDeltaDays \/ days < -MaxDeltaDays THEN Raise("OverflowError")
    ELSE IF BASE_DATE + days - 1 < 1 \/ BASE_DATE + days - 1 > MaxOrdinal
    THEN Raise("OverflowError")
    ELSE [kind |-> "date", ymd |-> ord2ymd(BASE_DATE + days - 1)]

\* BASE_DATE + timedelta(days=days): the date, or OverflowError
AddDays(days) ==
    IF days > MaxDeltaDays \/ days < -MaxDeltaDays THEN Raise("OverflowError")
    ELSE IF BASE_DATE + days < 1 \/ BASE_DATE + days > MaxOrdinal
    THEN Raise("OverflowError")
    ELSE [kind |-> "date", ymd |-> ord2ymd(BASE_DATE + days)]

----------------------------------------------------------------------------
(* excel_serial_to_iso *)

\* int(serial), line 66, outside both try blocks
IntOfFloat(f) ==
    CASE f.kind = "inf" -> Raise("OverflowError")
      [] f.kind = "nan" -> Raise("ValueError")
      [] f.kind = "huge" -> [kind |-> "huge"]
      [] f.kind = "fin" -> [kind |-> "int", n |-> f.trunc]

excel_serial_to_iso(v) ==
    LET text   == strip(v)
        serial == float(text)
        days   == IntOfFloat(serial)
        dv     == AddDays(days.n)
    IN  IF text = <<>> THEN None
        ELSE IF serial.kind = "ValueError" THEN None
        ELSE IF days.kind = "raise" THEN days
        ELSE IF days.kind = "huge" THEN None
        ELSE IF dv.kind = "raise" THEN None
        ELSE Str(isoformat(dv.ymd))

----------------------------------------------------------------------------
(* SpecSerial: excel_serial_to_iso applied to one string.                  *)
(* The numeric arguments are spelled from a sign, a magnitude and a form;  *)
(* the magnitudes lie in windows that start at the anchor, at the end of   *)
(* February 1900 and 1904, at the turn of 2000, at both ends of the        *)
(* calendar and at timedelta's limit.                                      *)

MaxOffset == 3

WindowStarts == {0, 59, 1520, 36524, 693591, 2958463, 999999997}

Magnitudes == {w + k : w \in WindowStarts, k \in 0..MaxOffset}

Forms == {"plain", "frac", "padded", "sci"}

RECURSIVE NatToDigits(_)
NatToDigits(n) ==
    IF n < 10 THEN <<DigitChar(n)>>
    ELSE NatToDigits(n \div 10) \o <<DigitChar(n % 10)>>

\* the text of the number: "-1521", "1521.9", " 1521\t", "1.521e3"
Spell(neg, mag, form) ==
    LET sign == IF neg THEN <<"-">> ELSE <<>>
        ds   == NatToDigits(mag)
    IN  CASE form = "plain"  -> sign \o ds
          [] form = "frac"   -> sign \o ds \o <<".", "9">>
          [] form = "padded" -> <<" ">> \o sign \o ds \o <<"\t", "\n">>
          [] form = "sci"    -> sign \o <<ds[1], ".">> \o SubSeq(ds, 2, Len(ds))
                                \o <<"e">> \o NatToDigits(Len(ds) - 1)

NumericTexts ==
    {Spell(neg, mag, form) : neg \in BOOLEAN, mag \in Magnitudes, form \in Forms}

OtherTexts ==
    { <<>>, <<" ">>, <<" ", "\t", " ">>,
      <<"a", "b", "c">>, <<"N", "/", "A">>,
      <<"1", "2", "/", "0", "5", "/", "2", "0", "2", "4">>,
      <<"1", ".", "2", ".", "3">>, <<"-", "-", "1">>, <<"1", "e">>,
      <<"e", "5">>, <<".">>, <<"0", "x", "1", "0">>, <<"1", " ", "2">>,
      <<"+", "7">>, <<".", "5">>, <<"7", ".">>, <<"5", "e", "-", "1">>,
      <<"1", "e", "3", "0", "0">>, <<"1", "E", "4", "0", "0">>,
      <<"i", "n", "f">>, <<"-", "I", "n", "f", "i", "n", "i", "t", "y">>,
      <<"N", "a", "N">> }

\* no request is served
AppIdle ==
    /\ excel_file = [shared |-> <<>>, manifest |-> <<>>, rels |-> <<>>,
                     parts |-> <<>>, malformed |-> {}]
    /\ tags = <<>>
    /\ last_id = 0
    /\ dropdown_options = <<>>
    /\ rpc = "idle"
    /\ needs = [seed |-> FALSE, dropdowns |-> FALSE]
    /\ requests = 0
    /\ response = ""
    /\ deleted = {}

\* no load is in progress
LoadIdle ==
    /\ zf = [shared |-> <<>>, manifest |-> <<>>, rels |-> <<>>, parts |-> <<>>,
             malformed |-> {}]
    /\ pc = "idle"
    /\ zip_open = FALSE
    /\ shared_strings = <<>>
    /\ sheet_targets = <<>>
    /\ log_sheet_path = None
    /\ dropdown_sheet_path = None
    /\ records = <<>>
    /\ result = None
    /\ error = ""

InitSerial ==
    /\ value \in NumericTexts \cup OtherTexts
    /\ iso = None
    /\ spc = "call"
    /\ LoadIdle
    /\ AppIdle

\* one call of excel_serial_to_iso(value)
ExcelSerialToIso ==
    /\ spc = "call"
    /\ iso' = excel_serial_to_iso(value)
    /\ spc' = "done"
    /\ UNCHANGED <<value, load_vars, app_vars>>

NextSerial == ExcelSerialToIso

SpecSerial == InitSerial /\ [][NextSerial]_vars

----------------------------------------------------------------------------
(* The calendar, stated without ord2ymd: leap years, month lengths, the    *)
(* number of days from 0001-01-01 to a date.                               *)

IsLeap(y) == y % 4 = 0 /\ (y % 100 # 0 \/ y % 400 = 0)

DaysIn(y, m) == IF m = 2 /\ IsLeap(y) THEN 29 ELSE DaysInMonthCommon(m)

IsDate(t) == t.y \in 1..9999 /\ t.m \in 1..12 /\ t.d \in 1..DaysIn(t.y, t.m)

RECURSIVE DaysBeforeMonthOf(_, _)
DaysBeforeMonthOf(y, m) ==
    IF m = 1 THEN 0 ELSE DaysBeforeMonthOf(y, m - 1) + DaysIn(y, m - 1)

DayNumber(t) ==
    LET p == t.y - 1
    IN  p * 365 + p \div 4 - p \div 100 + p \div 400
        + DaysBeforeMonthOf(t.y, t.m) + t.d

NextDay(t) ==
    IF t.d < DaysIn(t.y, t.m) THEN [t EXCEPT !.d = t.d + 1]
    ELSE IF t.m < 12 THEN [y |-> t.y, m |-> t.m + 1, d |-> 1]
    ELSE [y |-> t.y + 1, m |-> 1, d |-> 1]

Anchor == [y |-> 1899, m |-> 12, d |-> 30]

\* "YYYY-MM-DD" read back; a text of another shape reads as no date
ReadIso(s) ==
    IF /\ Len(s) = 10
       /\ s[5] = "-" /\ s[8] = "-"
       /\ \A i \in {1, 2, 3, 4, 6, 7, 9, 10} : s[i] \in Digits
    THEN [y |-> DigitsToNat(SubSeq(s, 1, 4)),
          m |-> DigitsToNat(SubSeq(s, 6, 7)),
          d |-> DigitsToNat(SubSeq(s, 9, 10))]
    ELSE [y |-> 0, m |-> 0, d |-> 0]

InCalendar(n) == DayNumber(Anchor) + n >= 1 /\ DayNumber(Anchor) + n <= MaxOrdinal

Signed(neg, mag) == IF neg THEN -mag ELSE mag

----------------------------------------------------------------------------
(* The archive.                                                            *)
(*   zf.shared   <<>> when xl/sharedStrings.xml is absent, else <<table>>, *)
(*               the table a sequence of <si> entries, each a sequence of  *)
(*               the texts of its <t> runs                                 *)
(*   zf.manifest the <sheet> elements of xl/workbook.xml: [name, rid]      *)
(*   zf.rels     the <Relationship> elements: [Id, Type, Target]           *)
(*   zf.parts    part path -> worksheet, a sequence of <row> elements      *)
(* A row is [r |-> <<>> or <<text>>, cells |-> sequence of <c> elements];  *)
(* a cell is [r |-> text ("" when the attribute is missing), t |-> type,   *)
(* hasv |-> whether it has a <v> child, raw |-> the text of <v>].          *)
(*   zf.malformed the paths of the parts that are not well-formed XML:     *)
(*               ET.fromstring raises ParseError on them                   *)

SharedStringsPart ==
    <<"x", "l", "/", "s", "h", "a", "r", "e", "d", "S", "t", "r", "i", "n", "g", "s", ".", "x", "m", "l">>
WorkbookPart ==
    <<"x", "l", "/", "w", "o", "r", "k", "b", "o", "o", "k", ".", "x", "m", "l">>
RelsPart ==
    <<"x", "l", "/", "_", "r", "e", "l", "s", "/", "w", "o", "r", "k", "b", "o", "o", "k", ".", "x", "m", "l", ".", "r", "e", "l", "s">>

endswith(s, suffix) ==
    /\ Len(suffix) <= Len(s)
    /\ SubSeq(s, Len(s) - Len(suffix) + 1, Len(s)) = suffix

RECURSIVE Join(_)
Join(parts) ==
    With(parts, LAMBDA ps : IF ps = <<>> THEN <<>> ELSE Head(ps) \o Join(Tail(ps)))

\* int(text) of a decimal literal: surrounding whitespace and a sign allowed
ParseInt(text) ==
    LET t      == strip(text)
        signed == Len(t) > 0 /\ t[1] \in {"+", "-"}
        body   == IF signed THEN SubSeq(t, 2, Len(t)) ELSE t
    IN  IF ~AllDigits(body) THEN Raise("ValueError")
        ELSE [kind |-> "int",
              n    |-> IF signed /\ t[1] = "-" THEN -DigitsToNat(body)
                       ELSE DigitsToNat(body)]

\* _read_shared_strings: [] when the part is absent
read_shared_strings(z) ==
    IF z.shared = <<>> THEN <<>>
    ELSE [i \in 1..Len(z.shared[1]) |-> Join(z.shared[1][i])]

\* list indexing with Python's negative indices
ListItem(list, i) ==
    IF 0 <= i /\ i < Len(list) THEN Str(list[i + 1])
    ELSE IF -Len(list) <= i /\ i < 0 THEN Str(list[Len(list) + i + 1])
    ELSE Raise("IndexError")

\* _cell_value, with self._shared_strings as ss
cell_value(ss, cell) ==
    IF ~cell.hasv THEN None
    ELSE IF cell.t = "s"
    THEN IF ss # <<>>
         THEN With(ParseInt(cell.raw),
                   LAMBDA i : IF i.kind = "raise" THEN i ELSE ListItem(ss, i.n))
         ELSE Str(cell.raw)
    ELSE Str(cell.raw)

WorksheetSuffix == <<"/", "w", "o", "r", "k", "s", "h", "e", "e", "t">>

\* rels.get(rid): the Target of the last worksheet relationship with that Id
RelTarget(rels, rid) ==
    LET hits == {i \in 1..Len(rels) :
                    rels[i].Id = rid /\ endswith(rels[i].Type, WorksheetSuffix)}
    IN  IF hits = {} THEN None
        ELSE Str(rels[CHOOSE i \in hits : \A j \in hits : j <= i].Target)

\* str.lstrip("/")
LStripSlash(s) ==
    LET keep == {i \in 1..Len(s) : s[i] # "/"}
    IN  IF keep = {} THEN <<>>
        ELSE SubSeq(s, CHOOSE i \in keep : \A j \in keep : i <= j, Len(s))

PartPath(target) ==
    IF ~startswith(target, <<"/">>) THEN <<"x", "l", "/">> \o target
    ELSE LStripSlash(target)

\* d[name] = path on an insertion-ordered dict kept as a sequence of entries
DictSet(d, name, path) ==
    IF \E i \in 1..Len(d) : d[i].name = name
    THEN [i \in 1..Len(d) |-> IF d[i].name = name THEN [d[i] EXCEPT !.path = path]
                              ELSE d[i]]
    ELSE Append(d, [name |-> name, path |-> path])

RECURSIVE TargetsFrom(_, _, _)
TargetsFrom(sheets, rels, acc) ==
    IF sheets = <<>> THEN acc
    ELSE With(RelTarget(rels, Head(sheets).rid), LAMBDA target :
            IF target.kind = "None" \/ target.s = <<>>
            THEN TargetsFrom(Tail(sheets), rels, acc)
            ELSE With(DictSet(acc, Head(sheets).name, PartPath(target.s)),
                      LAMBDA added : TargetsFrom(Tail(sheets), rels, added)))

\* _sheet_targets
get_sheet_targets(z) ==
    TargetsFrom(SelectSeq(z.manifest, LAMBDA sh : sh.rid # <<>>), z.rels, <<>>)

----------------------------------------------------------------------------
(* The sheet locator *)

\* every <c> of the sheet, in document order
CellsOf(sheet) == Join([i \in 1..Len(sheet) |-> sheet[i].cells])

RECURSIVE ScanCells(_, _, _)
ScanCells(cells, ss, needle) ==
    IF cells = <<>> THEN [kind |-> "bool", b |-> FALSE]
    ELSE With(cell_value(ss, Head(cells)), LAMBDA v :
            IF v.kind = "raise" THEN v
            ELSE IF v.kind = "str" /\ v.s # <<>>
                    /\ contains(lower(v.s), lower(needle))
            THEN [kind |-> "bool", b |-> TRUE]
            ELSE ScanCells(Tail(cells), ss, needle))

\* _sheet_contains_text; zf.read raises KeyError for a part that is missing
sheet_contains_text(z, ss, path, needle) ==
    IF path \notin DOMAIN z.parts THEN Raise("KeyError")
    ELSE IF path \in z.malformed THEN Raise("ParseError")
    ELSE With(CellsOf(z.parts[path]), LAMBDA cells : ScanCells(cells, ss, needle))

\* the path of the first entry whose sheet contains needle
RECURSIVE FirstContaining(_, _, _, _)
FirstContaining(z, ss, entries, needle) ==
    IF entries = <<>> THEN None
    ELSE With(sheet_contains_text(z, ss, Head(entries).path, needle), LAMBDA found :
            IF found.kind = "raise" THEN found
            ELSE IF found.b THEN Str(Head(entries).path)
            ELSE FirstContaining(z, ss, Tail(entries), needle))

NcLogPrefix == <<"n", "c", " ", "l", "o", "g">>
TagNumberMarker == <<"T", "a", "g", " ", "N", "u", "m", "b", "e", "r">>
RejectionTypeMarker == <<"R", "e", "j", "e", "c", "t", "i", "o", "n", " ", "T", "y", "p", "e", ":">>
SheetWord == <<"s", "h", "e", "e", "t">>

\* the name test compares the name as written, without lower()
find_log_sheet_case_sensitive(z, ss, targets) ==
    LET named == {i \in 1..Len(targets) : startswith(targets[i].name, NcLogPrefix)}
    IN  IF named # {}
        THEN Str(targets[CHOOSE i \in named : \A j \in named : i <= j].path)
        ELSE FirstContaining(z, ss, targets, TagNumberMarker)

\* _find_log_sheet
find_log_sheet(z, ss, targets) ==
    LET named == {i \in 1..Len(targets) :
                     startswith(lower(targets[i].name), NcLogPrefix)}
    IN  IF named # {}
        THEN Str(targets[CHOOSE i \in named : \A j \in named : i <= j].path)
        ELSE FirstContaining(z, ss, targets, TagNumberMarker)

\* _find_dropdown_sheet
find_dropdown_sheet(z, ss, targets) ==
    With(SelectSeq(targets, LAMBDA e : contains(lower(e.name), SheetWord)),
         LAMBDA sheetish :
            With(FirstContaining(z, ss, sheetish, RejectionTypeMarker), LAMBDA first :
                IF first.kind # "None" THEN first
                ELSE FirstContaining(z, ss, targets, RejectionTypeMarker)))

----------------------------------------------------------------------------
(* The record extractor *)

FIELD_MAP ==
    (<<"A">> :> "tag_number") @@ (<<"C">> :> "part_description")
    @@ (<<"E">> :> "rejection_type") @@ (<<"G">> :> "rejection_class")
    @@ (<<"I">> :> "defect_description") @@ (<<"K">> :> "rejected_by")
    @@ (<<"M">> :> "containment_date")
    @@ (<<"O">> :> "total_rejected_qty_initial")
    @@ (<<"Q">> :> "mfg_date") @@ (<<"S">> :> "mfg_shift")
    @@ (<<"U">> :> "supplier") @@ (<<"W">> :> "total_rejected_qty_final")
    @@ (<<"Y">> :> "disposition") @@ (<<"A", "A">> :> "authorized_by")
    @@ (<<"A", "C">> :> "date_authorized") @@ (<<"A", "E">> :> "date_sort_rework")
    @@ (<<"A", "G">> :> "good_pcs") @@ (<<"A", "I">> :> "reworked_pcs")
    @@ (<<"A", "K">> :> "scrap_pcs") @@ (<<"A", "M">> :> "complete")
    @@ (<<"A", "O">> :> "closed_date") @@ (<<"A", "Q">> :> "closed_by")
    @@ (<<"A", "S">> :> "qad_number") @@ (<<"A", "U">> :> "qad_date")
    @@ (<<"A", "W">> :> "completed_by")

DATE_FIELDS ==
    {"containment_date", "mfg_date", "date_authorized", "date_sort_rework",
     "closed_date", "qad_date"}

\* rows with an index below this one are the header block
HeaderRows == 7

\* re.match(r"([A-Z]+)", address): the leading capital letters, "" for no match
LeadingUpper(addr) ==
    LET bad == {i \in 1..Len(addr) : addr[i] \notin UpperLetters}
    IN  IF bad = {} THEN addr
        ELSE SubSeq(addr, 1, (CHOOSE i \in bad : \A j \in bad : i <= j) - 1)

LeadingDigits(s) ==
    LET bad == {i \in 1..Len(s) : s[i] \notin Digits}
    IN  IF bad = {} THEN s
        ELSE SubSeq(s, 1, (CHOOSE i \in bad : \A j \in bad : i <= j) - 1)

\* record[field] = text
SetField(record, field, text) ==
    [f \in DOMAIN record \cup {field} |-> IF f = field THEN text ELSE record[f]]

\* the cell loop of one row, lines 197-216: the record and has_text, or the
\* exception of the first cell that raises
\* record[field] = iso, without "or value": no text when iso is None
StoredText_without_fallback(field, text) ==
    IF field \notin DATE_FIELDS THEN Str(text)
    ELSE With(excel_serial_to_iso(text), LAMBDA isod :
            IF isod.kind = "raise" THEN isod
            ELSE IF isod.kind = "str" THEN isod ELSE Str(<<>>))

\* lines 212-216: the text stored for a field, or the exception raised
StoredText(field, text) ==
    IF field \notin DATE_FIELDS THEN Str(text)
    ELSE With(excel_serial_to_iso(text), LAMBDA isod :
            IF isod.kind = "raise" THEN isod
            ELSE IF isod.kind = "str" THEN isod ELSE Str(text))

\* a cell is skipped only when it has no value: blank text is stored
CellField_keeps_blank_text(ss, cell) ==
    With(LeadingUpper(cell.r), LAMBDA column :
        IF column = <<>> \/ column \notin DOMAIN FIELD_MAP THEN [kind |-> "skip"]
        ELSE With(cell_value(ss, cell), LAMBDA v :
                IF v.kind = "raise" THEN v
                ELSE IF v.kind = "None" THEN [kind |-> "skip"]
                ELSE With(StoredText(FIELD_MAP[column], strip(v.s)), LAMBDA stored :
                        IF stored.kind = "raise" THEN stored
                        ELSE [kind  |-> "set",
                              field |-> FIELD_MAP[column],
                              text  |-> stored.s])))

\* lines 198-216 for one cell: [kind |-> "skip"], the field and text to
\* store, or the exception raised
CellField(ss, cell) ==
    With(LeadingUpper(cell.r), LAMBDA column :
        IF column = <<>> \/ column \notin DOMAIN FIELD_MAP THEN [kind |-> "skip"]
        ELSE With(cell_value(ss, cell), LAMBDA v :
                IF v.kind = "raise" THEN v
                ELSE IF v.kind = "None" \/ strip(v.s) = <<>> THEN [kind |-> "skip"]
                ELSE With(StoredText(FIELD_MAP[column], strip(v.s)), LAMBDA stored :
                        IF stored.kind = "raise" THEN stored
                        ELSE [kind  |-> "set",
                              field |-> FIELD_MAP[column],
                              text  |-> stored.s])))

\* the cell loop of one row, lines 197-216: the record and has_text, or the
\* exception of the first cell that raises
RECURSIVE CellsInto(_, _, _, _)
CellsInto(cells, ss, record, has_text) ==
    IF cells = <<>>
    THEN [kind |-> "row", record |-> record, has_text |-> has_text]
    ELSE With(CellField(ss, Head(cells)), LAMBDA got :
            IF got.kind = "raise" THEN got
            ELSE IF got.kind = "skip"
            THEN CellsInto(Tail(cells), ss, record, has_text)
            ELSE With(SetField(record, got.field, got.text), LAMBDA updated :
                    CellsInto(Tail(cells), ss, updated, TRUE)))

\* int(row.attrib.get("r", "0"))
RowIndex(row) == ParseInt(IF row.r = <<>> THEN <<"0">> ELSE row.r[1])

\* the row loop, lines 191-218
RECURSIVE RowsInto(_, _, _)
RowsInto(rows, ss, acc) ==
    IF rows = <<>> THEN [kind |-> "list", items |-> acc]
    ELSE With(RowIndex(Head(rows)), LAMBDA row_index :
            IF row_index.kind = "raise" THEN row_index
            ELSE IF row_index.n < HeaderRows THEN RowsInto(Tail(rows), ss, acc)
            ELSE With(CellsInto(Head(rows).cells, ss, <<>>, FALSE), LAMBDA filled :
                    IF filled.kind = "raise" THEN filled
                    ELSE IF filled.has_text
                    THEN With(Append(acc, filled.record),
                              LAMBDA longer : RowsInto(Tail(rows), ss, longer))
                    ELSE RowsInto(Tail(rows), ss, acc)))

\* _read_log_records
read_log_records(z, ss, path) ==
    IF path \notin DOMAIN z.parts THEN Raise("KeyError")
    ELSE IF path \in z.malformed THEN Raise("ParseError")
    ELSE With(z.parts[path], LAMBDA rows : RowsInto(rows, ss, <<>>))

----------------------------------------------------------------------------
(* The dropdown extractor *)

NoDropdowns ==
    [rejection_type |-> <<>>, rejection_class |-> <<>>, disposition |-> <<>>]

DropdownKeys == {"rejection_type", "rejection_class", "disposition"}

\* re.match(r"([A-Z]+)([0-9]+)", address): [kind |-> "match", column, row_no]
\* or [kind |-> "None"]
MatchAddress(addr) ==
    With(LeadingUpper(addr), LAMBDA column :
        With(LeadingDigits(SubSeq(addr, Len(column) + 1, Len(addr))), LAMBDA row_no :
            IF column = <<>> \/ row_no = <<>> THEN None
            ELSE [kind |-> "match", column |-> column, row_no |-> row_no]))

\* the cells of row 1 are read like those of any other row
CellOption_reads_row_one(ss, cell) ==
    With(MatchAddress(cell.r), LAMBDA match :
        IF match.kind = "None" THEN [kind |-> "skip"]
        ELSE With(cell_value(ss, cell), LAMBDA v :
                IF v.kind = "raise" THEN v
                ELSE IF v.kind = "None" \/ v.s = <<>> THEN [kind |-> "skip"]
                ELSE IF match.column = <<"A">>
                THEN [kind |-> "add", key |-> "rejection_type", text |-> strip(v.s)]
                ELSE IF match.column = <<"C">>
                THEN [kind |-> "add", key |-> "rejection_class", text |-> strip(v.s)]
                ELSE IF match.column = <<"E">>
                THEN [kind |-> "add", key |-> "disposition", text |-> strip(v.s)]
                ELSE [kind |-> "skip"]))

\* lines 229-244 for one cell: [kind |-> "skip"], the list and the text to
\* append to it, or the exception raised
CellOption(ss, cell) ==
    With(MatchAddress(cell.r), LAMBDA match :
        IF match.kind = "None" THEN [kind |-> "skip"]
        ELSE IF match.row_no = <<"1">> THEN [kind |-> "skip"]
        ELSE With(cell_value(ss, cell), LAMBDA v :
                IF v.kind = "raise" THEN v
                ELSE IF v.kind = "None" \/ v.s = <<>> THEN [kind |-> "skip"]
                ELSE IF match.column = <<"A">>
                THEN [kind |-> "add", key |-> "rejection_type", text |-> strip(v.s)]
                ELSE IF match.column = <<"C">>
                THEN [kind |-> "add", key |-> "rejection_class", text |-> strip(v.s)]
                ELSE IF match.column = <<"E">>
                THEN [kind |-> "add", key |-> "disposition", text |-> strip(v.s)]
                ELSE [kind |-> "skip"]))

\* the scan of lines 228-244: the three lists before deduplication
RECURSIVE CollectInto(_, _, _)
CollectInto(cells, ss, acc) ==
    IF cells = <<>> THEN [kind |-> "lists", lists |-> acc]
    ELSE With(CellOption(ss, Head(cells)), LAMBDA got :
            IF got.kind = "raise" THEN got
            ELSE IF got.kind = "skip" THEN CollectInto(Tail(cells), ss, acc)
            ELSE With([acc EXCEPT ![got.key] = Append(@, got.text)],
                      LAMBDA longer : CollectInto(Tail(cells), ss, longer)))

collect_dropdowns(z, ss, path) ==
    IF path \notin DOMAIN z.parts THEN Raise("KeyError")
    ELSE IF path \in z.malformed THEN Raise("ParseError")
    ELSE With(CellsOf(z.parts[path]), LAMBDA cells : CollectInto(cells, ss, NoDropdowns))

Range(s) == {s[i] : i \in 1..Len(s)}

\* a value is dropped only when it repeats the one kept last
RECURSIVE UniqueInto_drops_adjacent_repeats(_, _)
UniqueInto_drops_adjacent_repeats(values, unique) ==
    IF values = <<>> THEN unique
    ELSE IF unique # <<>> /\ Head(values) = unique[Len(unique)]
    THEN UniqueInto_drops_adjacent_repeats(Tail(values), unique)
    ELSE With(Append(unique, Head(values)),
              LAMBDA longer : UniqueInto_drops_adjacent_repeats(Tail(values), longer))

\* lines 246-253: keep the first occurrence of each value
RECURSIVE UniqueInto(_, _)
UniqueInto(values, unique) ==
    IF values = <<>> THEN unique
    ELSE IF Head(values) \in Range(unique) THEN UniqueInto(Tail(values), unique)
    ELSE With(Append(unique, Head(values)),
              LAMBDA longer : UniqueInto(Tail(values), longer))

Deduplicate(values) == UniqueInto(values, <<>>)

\* _read_dropdowns
read_dropdowns(z, ss, path) ==
    With(collect_dropdowns(z, ss, path), LAMBDA collected :
        IF collected.kind = "raise" THEN collected
        ELSE [kind  |-> "lists",
              lists |-> [key \in DropdownKeys |-> Deduplicate(collected.lists[key])]])

----------------------------------------------------------------------------
(* NonconExcelLoader.load, one action per stage of the with block *)

\* both failures carry the message of the dropdown sheet
LogSheetNotFound_dropdown_message ==
    "ValueError: Could not locate dropdown worksheet in workbook."

LogSheetNotFound == "ValueError: Could not locate NC Log worksheet in workbook."

DropdownSheetNotFound == "ValueError: Could not locate dropdown worksheet in workbook."

\* the exception leaves load without the with block closing the archive
RaiseFrom_leaves_archive_open(exc) ==
    /\ pc' = "raised"
    /\ error' = exc
    /\ zip_open' = zip_open

\* an exception leaves the with block: the archive is closed, load ends
RaiseFrom(exc) ==
    /\ pc' = "raised"
    /\ error' = exc
    /\ zip_open' = FALSE

\* line 89-90: with zipfile.ZipFile(self.workbook_path) as zf
Open ==
    /\ pc = "open"
    /\ zip_open' = TRUE
    /\ pc' = "shared"
    /\ UNCHANGED <<zf, shared_strings, sheet_targets, log_sheet_path,
                   dropdown_sheet_path, records, result, error, serial_vars, app_vars>>

\* line 91
ReadSharedStrings ==
    /\ pc = "shared"
    /\ IF zf.shared # <<>> /\ SharedStringsPart \in zf.malformed
       THEN RaiseFrom("ParseError") /\ UNCHANGED shared_strings
       ELSE /\ shared_strings' = read_shared_strings(zf)
            /\ pc' = "targets"
            /\ UNCHANGED <<zip_open, error>>
    /\ UNCHANGED <<zf, sheet_targets, log_sheet_path,
                   dropdown_sheet_path, records, result, serial_vars, app_vars>>

\* line 92
SheetTargets ==
    /\ pc = "targets"
    /\ IF WorkbookPart \in zf.malformed \/ RelsPart \in zf.malformed
       THEN RaiseFrom("ParseError") /\ UNCHANGED sheet_targets
       ELSE /\ sheet_targets' = get_sheet_targets(zf)
            /\ pc' = "find_log"
            /\ UNCHANGED <<zip_open, error>>
    /\ UNCHANGED <<zf, shared_strings, log_sheet_path,
                   dropdown_sheet_path, records, result, serial_vars, app_vars>>

\* lines 94-96
FindLogSheet ==
    /\ pc = "find_log"
    /\ \E found \in {find_log_sheet(zf, shared_strings, sheet_targets)} :
           IF found.kind = "raise"
           THEN RaiseFrom(found.exc) /\ UNCHANGED log_sheet_path
           ELSE IF found.kind = "None" \/ found.s = <<>>
           THEN /\ RaiseFrom(LogSheetNotFound)
                /\ log_sheet_path' = found
           ELSE /\ log_sheet_path' = found
                /\ pc' = "find_dropdown"
                /\ UNCHANGED <<zip_open, error>>
    /\ UNCHANGED <<zf, shared_strings, sheet_targets, dropdown_sheet_path,
                   records, result, serial_vars, app_vars>>

\* lines 97-99
FindDropdownSheet ==
    /\ pc = "find_dropdown"
    /\ \E found \in {find_dropdown_sheet(zf, shared_strings, sheet_targets)} :
           IF found.kind = "raise"
           THEN RaiseFrom(found.exc) /\ UNCHANGED dropdown_sheet_path
           ELSE IF found.kind = "None" \/ found.s = <<>>
           THEN /\ RaiseFrom(DropdownSheetNotFound)
                /\ dropdown_sheet_path' = found
           ELSE /\ dropdown_sheet_path' = found
                /\ pc' = "read_records"
                /\ UNCHANGED <<zip_open, error>>
    /\ UNCHANGED <<zf, shared_strings, sheet_targets, log_sheet_path,
                   records, result, serial_vars, app_vars>>

\* line 101
ReadLogRecords ==
    /\ pc = "read_records"
    /\ \E got \in {read_log_records(zf, shared_strings, log_sheet_path.s)} :
           IF got.kind = "raise"
           THEN RaiseFrom(got.exc) /\ UNCHANGED records
           ELSE /\ records' = got.items
                /\ pc' = "read_dropdowns"
                /\ UNCHANGED <<zip_open, error>>
    /\ UNCHANGED <<zf, shared_strings, sheet_targets, log_sheet_path,
                   dropdown_sheet_path, result, serial_vars, app_vars>>

\* lines 102-103: the dropdowns are read and the ExcelData is returned
ReadDropdowns ==
    /\ pc = "read_dropdowns"
    /\ \E got \in {read_dropdowns(zf, shared_strings, dropdown_sheet_path.s)} :
           IF got.kind = "raise"
           THEN RaiseFrom(got.exc) /\ UNCHANGED result
           ELSE /\ result' = [kind      |-> "ExcelData",
                              records   |-> records,
                              dropdowns |-> got.lists]
                /\ pc' = "returned"
                /\ zip_open' = FALSE
                /\ UNCHANGED error
    /\ UNCHANGED <<zf, shared_strings, sheet_targets, log_sheet_path,
                   dropdown_sheet_path, records, serial_vars, app_vars>>

Next ==
    \/ Open
    \/ ReadSharedStrings
    \/ SheetTargets
    \/ FindLogSheet
    \/ FindDropdownSheet
    \/ ReadLogRecords
    \/ ReadDropdowns

\* load has not started on the archive wb
LoadStarts(wb) ==
    /\ zf = wb
    /\ pc = "open"
    /\ zip_open = FALSE
    /\ shared_strings = <<>>
    /\ sheet_targets = <<>>
    /\ log_sheet_path = None
    /\ dropdown_sheet_path = None
    /\ records = <<>>
    /\ result = None
    /\ error = ""

SerialIdle ==
    /\ value = <<>>
    /\ iso = None
    /\ spc = "idle"

----------------------------------------------------------------------------
(* Archives *)

WorksheetType == <<"r", "e", "l", "/", "w", "o", "r", "k", "s", "h", "e", "e", "t">>
ChartsheetType == <<"r", "e", "l", "/", "c", "h", "a", "r", "t", "s", "h", "e", "e", "t">>

Cell(addr, type, raw) == [r |-> addr, t |-> type, hasv |-> TRUE, raw |-> raw]
EmptyCell(addr) == [r |-> addr, t |-> "", hasv |-> FALSE, raw |-> <<>>]
Row(attr, cells) == [r |-> attr, cells |-> cells]
Rel(id, type, target) == [Id |-> id, Type |-> type, Target |-> target]

Part1 == <<"x", "l", "/", "w", "s", "/", "s", "1", ".", "x", "m", "l">>
Part2 == <<"x", "l", "/", "w", "s", "/", "s", "2", ".", "x", "m", "l">>
Part3 == <<"x", "l", "/", "w", "s", "/", "s", "3", ".", "x", "m", "l">>

StdManifest ==
    << [name |-> <<"N", "C", " ", "L", "o", "g", " ", "2", "0", "2", "5">>, rid |-> <<"r", "I", "d", "1">>],
       [name |-> <<"S", "h", "e", "e", "t", "2">>, rid |-> <<"r", "I", "d", "2">>] >>

\* one target relative to xl/, one absolute
StdRels ==
    << Rel(<<"r", "I", "d", "1">>, WorksheetType, <<"w", "s", "/", "s", "1", ".", "x", "m", "l">>),
       Rel(<<"r", "I", "d", "2">>, WorksheetType, <<"/", "x", "l", "/", "w", "s", "/", "s", "2", ".", "x", "m", "l">>) >>

\* entry 0 "Widget", 1 " Bolt " (two runs), 2 "  ", 3 "45000"
StdTable ==
    << <<<<"W", "i", "d", "g", "e", "t">>>>, <<<<" ", "B", "o">>, <<"l", "t", " ">>>>, <<<<" ", " ">>>>, <<<<"4", "5", "0", "0", "0">>>> >>

StdLogSheet ==
    << Row(<<<<"6">>>>, <<Cell(<<"A", "6">>, "", <<"T", "a", "g", " ", "N", "u", "m", "b", "e", "r">>)>>),
       Row(<<<<"7">>>>, <<Cell(<<"A", "7">>, "", <<"T", "-", "1">>)>>) >>

StdDropSheet ==
    << Row(<<<<"1">>>>, <<Cell(<<"A", "1">>, "", <<"R", "e", "j", "e", "c", "t", "i", "o", "n", " ", "T", "y", "p", "e", ":">>)>>),
       Row(<<<<"2">>>>, <<Cell(<<"A", "2">>, "", <<"S", "c", "r", "a", "t", "c", "h">>),
                         Cell(<<"C", "2">>, "", <<"M", "a", "j", "o", "r">>),
                         Cell(<<"E", "2">>, "", <<"S", "c", "r", "a", "p">>)>>) >>

Workbook(shared, logsheet, dropsheet) ==
    [shared   |-> shared,
     manifest |-> StdManifest,
     rels     |-> StdRels,
     parts    |-> (Part1 :> logsheet) @@ (Part2 :> dropsheet),
     malformed |-> {}]

----------------------------------------------------------------------------
(* SpecCells: the shared-string table is absent or has 0..MaxShared        *)
(* entries; the log sheet has one cell, A7, of any type and stored text.   *)

MaxShared == 3

SharedParts ==
    {<<>>} \cup {<<SubSeq(StdTable, 1, k)>> : k \in 0..MaxShared}

CellTypes == {"s", "str", ""}

RawTexts ==
    { <<>>, <<"0">>, <<"1">>, <<"2">>, <<"3">>, <<"4">>, <<"-", "1">>, <<"-", "4">>, <<" ", "1", " ">>,
      <<"x">>, <<"T", "a", "g", " ", "N", "u", "m", "b", "e", "r">> }

ProbeCells ==
    {EmptyCell(<<"A", "7">>)} \cup {Cell(<<"A", "7">>, t, raw) : t \in CellTypes, raw \in RawTexts}

InitCells ==
    /\ \E shared \in SharedParts, cell \in ProbeCells :
          LoadStarts(Workbook(shared, <<Row(<<<<"7">>>>, <<cell>>)>>, StdDropSheet))
    /\ SerialIdle
    /\ AppIdle

SpecCells == InitCells /\ [][Next]_vars

----------------------------------------------------------------------------
(* SpecRecords: the log sheet has up to MaxRows rows holding up to         *)
(* MaxCells cells in all; a row's r attribute is "6" or "7".               *)

MaxRows == 2
MaxCells == 2

RowAttrs == {<<<<"6">>>>, <<<<"7">>>>}

\* mapped text, a shared string with blanks around it, blanks only, a cell
\* without <v>, text in a column FIELD_MAP does not name
RecordCells ==
    { Cell(<<"A", "7">>, "", <<"T", "-", "1">>),
      Cell(<<"C", "7">>, "s", <<"1">>),
      Cell(<<"A", "7">>, "str", <<" ", "\t">>),
      EmptyCell(<<"E", "7">>),
      Cell(<<"B", "7">>, "", <<"x">>) }

\* the ways to deal n cells, in order, to k rows
Splits(n, k) ==
    {f \in [1..n -> 1..k] : \A i \in 1..n, j \in 1..n : i <= j => f[i] <= f[j]}

RowCells(cells, f, i) ==
    LET js == {j \in 1..Len(cells) : f[j] = i}
    IN  IF js = {} THEN <<>>
        ELSE SubSeq(cells, CHOOSE a \in js : \A b \in js : a <= b,
                           CHOOSE a \in js : \A b \in js : b <= a)

SheetsOver(attrsets, cellset) ==
    UNION { UNION { UNION {
        { [i \in 1..k |-> Row(attrs[i], RowCells(cells, f, i))] :
            attrs \in [1..k -> attrsets], cells \in [1..n -> cellset] }
        : f \in Splits(n, k) } : n \in 0..MaxCells } : k \in 0..MaxRows }

RecordSheets == SheetsOver(RowAttrs, RecordCells)

InitRecords ==
    /\ \E logsheet \in RecordSheets :
          LoadStarts(Workbook(<<StdTable>>, logsheet, StdDropSheet))
    /\ SerialIdle
    /\ AppIdle

SpecRecords == InitRecords /\ [][Next]_vars

----------------------------------------------------------------------------
(* SpecDates: row 7 of the log sheet has one cell, in a date column,       *)
(* holding any of the texts of SpecSerial.                                 *)

DateColumns == {column \in DOMAIN FIELD_MAP : FIELD_MAP[column] \in DATE_FIELDS}

DateTexts == NumericTexts \cup OtherTexts

InitDates ==
    /\ \E column \in DateColumns, text \in DateTexts :
          LoadStarts(Workbook(<<StdTable>>,
                              <<Row(<<<<"7">>>>, <<Cell(column \o <<"7">>, "", text)>>)>>,
                              StdDropSheet))
    /\ SerialIdle
    /\ AppIdle

SpecDates == InitDates /\ [][Next]_vars

----------------------------------------------------------------------------
(* Record extraction against the rows of the log sheet *)

Extracted == pc \in {"read_dropdowns", "returned"}

LogSheet == zf.parts[Part1]

\* the decoded text of a cell after trimming, empty for a cell without value
TrimmedText(cell) ==
    LET v == cell_value(shared_strings, cell)
    IN  IF v.kind = "str" THEN strip(v.s) ELSE <<>>

Mapped(cell) == LeadingUpper(cell.r) \in DOMAIN FIELD_MAP

HasMappedText(row) ==
    \E j \in 1..Len(row.cells) :
        Mapped(row.cells[j]) /\ TrimmedText(row.cells[j]) # <<>>

\* the positions of the rows the claim says contribute
Contributing(sheet) ==
    {i \in 1..Len(sheet) : ParseInt(sheet[i].r[1]).n >= 7 /\ HasMappedText(sheet[i])}

\* the k-th smallest member of a set of numbers
Nth(S, k) == CHOOSE i \in S : Cardinality({j \in S : j < i}) = k - 1

\* the fields a row fills: each from its last non-blank cell of that column
RowRecord(row) ==
    LET filled == {j \in 1..Len(row.cells) :
                      Mapped(row.cells[j]) /\ TrimmedText(row.cells[j]) # <<>>}
        FieldOf(j) == FIELD_MAP[LeadingUpper(row.cells[j].r)]
    IN  [f \in {FieldOf(j) : j \in filled} |->
            TrimmedText(row.cells[CHOOSE j \in filled :
                /\ FieldOf(j) = f
                /\ \A k \in filled : FieldOf(k) = f => k <= j])]

\* C1: once the records are extracted there is exactly one record per row
\* of the log sheet that has an index of 7 or more and a FIELD_MAP cell with
\* text left after trimming, no record for any other row, and the records
\* stand in the document order of their rows.
C1_RowsContribute ==
    Extracted =>
        /\ Len(records) = Cardinality(Contributing(LogSheet))
        /\ \A k \in 1..Len(records) :
              records[k] = RowRecord(LogSheet[Nth(Contributing(LogSheet), k)])

\* a header row with mapped text, then a blank row 7, then a row 7 with text:
\* only the last one is in the output
C1_Witness ==
    /\ pc = "returned"
    /\ LogSheet = << Row(<<<<"6">>>>, <<Cell(<<"A", "7">>, "", <<"T", "-", "1">>)>>),
                     Row(<<<<"7">>>>, <<Cell(<<"A", "7">>, "str", <<" ", "\t">>)>>) >>
    /\ records = <<>>

----------------------------------------------------------------------------
(* Date columns of the log sheet *)

\* the first cell of the first row: in SpecDates, the date cell
DateCell == LogSheet[1].cells[1]

DateField == FIELD_MAP[LeadingUpper(DateCell.r)]

\* C2: a date-column cell of an included row whose trimmed text v is not
\* empty never makes load fail: the record stores v itself or, when v
\* converts, an ISO date.
C2_DateTextNeverFailsLoad ==
    LET v == strip(DateCell.raw)
    IN  v # <<>> =>
           /\ pc # "raised"
           /\ Extracted =>
                 /\ Len(records) = 1
                 /\ DOMAIN records[1] = {DateField}
                 /\ \/ records[1][DateField] = v
                    \/ IsDate(ReadIso(records[1][DateField]))

----------------------------------------------------------------------------
(* SpecDropdowns: under its header cell the dropdown sheet has up to       *)
(* MaxDropCells cells.                                                      *)

MaxDropCells == 3

\* two options of column A, blanks only, padded text in C, a padded shared
\* string in E, a column that feeds no list, a row-1 cell, a cell of row 10
DropCells ==
    { Cell(<<"A", "2">>, "", <<"S", "c", "r", "a", "t", "c", "h">>),
      Cell(<<"A", "3">>, "", <<"D", "e", "n", "t">>),
      Cell(<<"A", "4">>, "", <<" ", "\t">>),
      Cell(<<"C", "2">>, "", <<" ", "M", "a", "j", "o", "r", " ">>),
      Cell(<<"E", "2">>, "s", <<"1">>),
      Cell(<<"B", "2">>, "", <<"O", "t", "h", "e", "r">>),
      Cell(<<"E", "1">>, "", <<"S", "c", "r", "a", "p">>),
      Cell(<<"A", "1", "0">>, "", <<"T", "e", "n">>) }

HeaderRow == Row(<<<<"1">>>>, <<Cell(<<"A", "1">>, "", RejectionTypeMarker)>>)

DropSheets ==
    UNION { {<<HeaderRow, Row(<<<<"2">>>>, cells)>> : cells \in [1..n -> DropCells]}
            : n \in 0..MaxDropCells }

InitDropdowns ==
    /\ \E dropsheet \in DropSheets :
          LoadStarts(Workbook(<<StdTable>>, StdLogSheet, dropsheet))
    /\ SerialIdle
    /\ AppIdle

SpecDropdowns == InitDropdowns /\ [][Next]_vars

----------------------------------------------------------------------------
(* Dropdown extraction against the cells of the dropdown sheet *)

DropSheet == zf.parts[Part2]

ListColumn(key) ==
    CASE key = "rejection_type" -> <<"A">>
      [] key = "rejection_class" -> <<"C">>
      [] key = "disposition" -> <<"E">>

\* C4: every entry of the three returned lists is a trimmed, non-empty
\* string taken from a cell of that list's column: blank cells and cells of
\* other columns add nothing.
C4_EntriesTrimmedNonEmpty ==
    pc = "returned" =>
        \A key \in DropdownKeys :
            \A i \in 1..Len(result.dropdowns[key]) :
                LET entry == result.dropdowns[key][i]
                IN  /\ entry # <<>>
                    /\ strip(entry) = entry
                    /\ \E cell \in Range(CellsOf(DropSheet)) :
                          /\ LeadingUpper(cell.r) = ListColumn(key)
                          /\ TrimmedText(cell) = entry


\* the values collected for the three lists, before deduplication
Collected == collect_dropdowns(zf, shared_strings, dropdown_sheet_path.s).lists

\* a sequence with every repeat after the first left out
FirstOccurrences(values) ==
    LET firsts == {i \in 1..Len(values) : \A j \in 1..(i - 1) : values[j] # values[i]}
    IN  [k \in 1..Cardinality(firsts) |-> values[Nth(firsts, k)]]

\* C5: each returned list is the collected sequence with every repeat after
\* the first removed: no value twice, every collected value once, in the
\* order of first occurrence.
C5_FirstOccurrenceKept ==
    pc = "returned" =>
        \A key \in DropdownKeys :
            LET list == result.dropdowns[key]
            IN  /\ \A i \in 1..Len(list), j \in 1..Len(list) : list[i] = list[j] => i = j
                /\ Range(list) = Range(Collected[key])
                /\ list = FirstOccurrences(Collected[key])

\* Scratch, Dent, Scratch in column A gives Scratch, Dent
C5_Witness ==
    /\ pc = "returned"
    /\ Collected["rejection_type"] = <<<<"S", "c", "r", "a", "t", "c", "h">>, <<"D", "e", "n", "t">>, <<"S", "c", "r", "a", "t", "c", "h">>>>
    /\ result.dropdowns["rejection_type"] = <<<<"S", "c", "r", "a", "t", "c", "h">>, <<"D", "e", "n", "t">>>>

\* the address is capital letters followed by the single digit 1
InRowOne(cell) ==
    /\ LeadingUpper(cell.r) # <<>>
    /\ cell.r = LeadingUpper(cell.r) \o <<"1">>

\* the archive with the row-1 cells of the dropdown sheet taken out
WithoutRowOne(z) ==
    [z EXCEPT !.parts[Part2] =
        [i \in 1..Len(@) |->
            [@[i] EXCEPT !.cells = SelectSeq(@, LAMBDA cell : ~InRowOne(cell))]]]

\* C6: no cell of row "1" contributes to a dropdown list: the lists are
\* those of the same sheet with its row-1 cells taken out, and every entry
\* is the text of a cell of another row.
C6_RowOneContributesNothing ==
    pc = "returned" =>
        /\ result.dropdowns =
              read_dropdowns(WithoutRowOne(zf), shared_strings, dropdown_sheet_path.s).lists
        /\ \A key \in DropdownKeys :
              \A i \in 1..Len(result.dropdowns[key]) :
                  \E cell \in Range(CellsOf(DropSheet)) :
                      /\ ~InRowOne(cell)
                      /\ LeadingUpper(cell.r) = ListColumn(key)
                      /\ TrimmedText(cell) = result.dropdowns[key][i]

\* the sheet has Scrap in E1 and Ten in A10: only the cell of row 10 is used
C6_Witness ==
    /\ pc = "returned"
    /\ CellsOf(DropSheet) = << Cell(<<"A", "1">>, "", RejectionTypeMarker),
                               Cell(<<"E", "1">>, "", <<"S", "c", "r", "a", "p">>),
                               Cell(<<"A", "1", "0">>, "", <<"T", "e", "n">>) >>
    /\ result.dropdowns = [rejection_type  |-> <<<<"T", "e", "n">>>>,
                           rejection_class |-> <<>>,
                           disposition     |-> <<>>]

----------------------------------------------------------------------------
(* SpecLocator: the manifest lists up to MaxSheets sheets with distinct    *)
(* names; each has a part with or without the two markers, and its         *)
(* relationship is a worksheet one, of another type, or not declared.      *)

MaxSheets == 2

SheetNames ==
    { <<"N", "c", " ", "L", "O", "G", " ", "2", "0", "2", "5">>, <<"N", "C", " ", "L", "o", "g", " ", "o", "l", "d">>, <<"S", "h", "e", "e", "t", "1">>, <<"D", "a", "t", "a">> }

SheetParts == <<Part1, Part2, Part3>>

SheetRids == <<<<"r", "I", "d", "1">>, <<"r", "I", "d", "2">>, <<"r", "I", "d", "3">>>>

\* relative to xl/, absolute, relative
SheetRelTargets == <<<<"w", "s", "/", "s", "1", ".", "x", "m", "l">>, <<"/", "x", "l", "/", "w", "s", "/", "s", "2", ".", "x", "m", "l">>, <<"w", "s", "/", "s", "3", ".", "x", "m", "l">>>>

TagRows ==
    << Row(<<<<"6">>>>, <<Cell(<<"A", "6">>, "", <<"O", "l", "d", " ", "t", "a", "g", " ", "N", "U", "M", "B", "E", "R">>)>>),
       Row(<<<<"7">>>>, <<Cell(<<"A", "7">>, "", <<"T", "-", "1">>)>>) >>

OptionRows ==
    << Row(<<<<"1">>>>, <<Cell(<<"A", "1">>, "", <<"r", "e", "j", "e", "c", "t", "i", "o", "n", " ", "t", "y", "p", "e", ":", " ">>)>>),
       Row(<<<<"2">>>>, <<Cell(<<"A", "2">>, "", <<"S", "c", "r", "a", "t", "c", "h">>)>>) >>

SheetContents == {<<>>, TagRows, OptionRows, TagRows \o OptionRows}

RelKinds == {"worksheet", "chartsheet", "undeclared"}

RelsFor(kinds) ==
    LET declared == SelectSeq([i \in 1..Len(kinds) |-> i],
                              LAMBDA i : kinds[i] # "undeclared")
    IN  [k \in 1..Len(declared) |->
            Rel(SheetRids[declared[k]],
                IF kinds[declared[k]] = "worksheet" THEN WorksheetType ELSE ChartsheetType,
                SheetRelTargets[declared[k]])]

LocatorWorkbook(names, kinds, contents) ==
    [shared   |-> <<StdTable>>,
     manifest |-> [i \in 1..Len(names) |-> [name |-> names[i], rid |-> SheetRids[i]]],
     rels     |-> RelsFor(kinds),
     parts    |-> [p \in {SheetParts[i] : i \in 1..Len(names)} |->
                      contents[CHOOSE i \in 1..Len(names) : SheetParts[i] = p]],
     malformed |-> {}]

InitLocator ==
    /\ \E n \in 0..MaxSheets :
          \E names \in {f \in [1..n -> SheetNames] :
                           \A i \in 1..n, j \in 1..n : f[i] = f[j] => i = j},
             kinds \in [1..n -> RelKinds],
             contents \in [1..n -> SheetContents] :
                LoadStarts(LocatorWorkbook(names, kinds, contents))
    /\ SerialIdle
    /\ AppIdle

SpecLocator == InitLocator /\ [][Next]_vars

----------------------------------------------------------------------------
(* The sheet locator against the sheets of the mapping *)

\* the name starts with "nc log", capitals and small letters alike
NamedLog(entry) ==
    /\ Len(entry.name) >= Len(NcLogPrefix)
    /\ \A i \in 1..Len(NcLogPrefix) : LowerChar(entry.name[i]) = NcLogPrefix[i]

\* some cell of the part decodes to a text that holds the marker, capitals
\* and small letters alike
HasMarker(entry, marker) ==
    \E cell \in Range(CellsOf(zf.parts[entry.path])) :
        LET v == cell_value(shared_strings, cell)
        IN  /\ v.kind = "str"
            /\ \E at \in 1..(Len(v.s) - Len(marker) + 1) :
                  \A i \in 1..Len(marker) :
                      LowerChar(v.s[at + i - 1]) = LowerChar(marker[i])

\* the first entry of the mapping that passes a test, 0 when none does
FirstEntry(Test(_)) ==
    LET hits == {i \in 1..Len(sheet_targets) : Test(sheet_targets[i])}
    IN  IF hits = {} THEN 0 ELSE CHOOSE i \in hits : \A j \in hits : i <= j

FirstNamedLog == FirstEntry(NamedLog)

FirstTagged == FirstEntry(LAMBDA entry : HasMarker(entry, TagNumberMarker))

FirstWithOptions == FirstEntry(LAMBDA entry : HasMarker(entry, RejectionTypeMarker))

LogSought == pc \notin {"open", "shared", "targets", "find_log"}

DropdownSought == LogSought /\ pc # "find_dropdown"

\* C7: the log sheet is the part of the first sheet whose name starts with
\* "nc log" in any case; only when no name does, the part of the first
\* sheet with a cell containing "Tag Number" in any case; so a workbook
\* whose names all miss the prefix resolves to the sheet with the marker.
C7_LogSheetByNameThenMarker ==
    LogSought =>
        /\ FirstNamedLog # 0 =>
              log_sheet_path = Str(sheet_targets[FirstNamedLog].path)
        /\ (FirstNamedLog = 0 /\ FirstTagged # 0) =>
              log_sheet_path = Str(sheet_targets[FirstTagged].path)
        /\ (FirstNamedLog = 0 /\ FirstTagged = 0) => log_sheet_path = None

\* no name has the prefix, the second of two sheets holds the marker, and
\* it is the one resolved
C7_Witness ==
    /\ pc = "find_dropdown"
    /\ Len(sheet_targets) = 2
    /\ FirstNamedLog = 0
    /\ FirstTagged = 2
    /\ log_sheet_path = Str(Part2)

NothingExtracted == result = None /\ records = <<>>

\* C8: with no "nc log" name and no "Tag Number" cell, load fails with the
\* log-sheet error, also when the dropdown sheet is missing too; with the
\* log sheet found and no "Rejection Type:" cell, it fails with the
\* dropdown-sheet error, a different one; nothing is extracted either way.
C8_SheetNotFoundErrors ==
    /\ LogSheetNotFound # DropdownSheetNotFound
    /\ (LogSought /\ FirstNamedLog = 0 /\ FirstTagged = 0) =>
          pc = "raised" /\ error = LogSheetNotFound /\ NothingExtracted
    /\ (DropdownSought /\ (FirstNamedLog # 0 \/ FirstTagged # 0) /\ FirstWithOptions = 0) =>
          pc = "raised" /\ error = DropdownSheetNotFound /\ NothingExtracted
    /\ error = LogSheetNotFound =>
          LogSought /\ FirstNamedLog = 0 /\ FirstTagged = 0
    /\ error = DropdownSheetNotFound =>
          DropdownSought /\ (FirstNamedLog # 0 \/ FirstTagged # 0) /\ FirstWithOptions = 0

\* two sheets, neither a log sheet nor a dropdown sheet: the log-sheet
\* error is the one reported
C8_Witness ==
    /\ pc = "raised"
    /\ Len(sheet_targets) = 2
    /\ FirstNamedLog = 0 /\ FirstTagged = 0 /\ FirstWithOptions = 0
    /\ error = LogSheetNotFound
    /\ NothingExtracted

\* the relationships part declares a worksheet relationship with this id
DeclaredWorksheet(rid) ==
    \E i \in 1..Len(zf.rels) :
        /\ zf.rels[i].Id = rid
        /\ Len(zf.rels[i].Type) >= Len(WorksheetSuffix)
        /\ \A k \in 1..Len(WorksheetSuffix) :
              zf.rels[i].Type[Len(zf.rels[i].Type) - Len(WorksheetSuffix) + k]
                  = WorksheetSuffix[k]

TargetsResolved == pc \notin {"open", "shared", "targets"}

\* C10: once the relationships are resolved, a manifest sheet whose
\* relationship id is not declared as a worksheet relationship has made the
\* load fail; no sheet of the manifest is missing from the mapping of a
\* load that goes on.
C10_UndeclaredRelationshipFails ==
    TargetsResolved =>
        \A i \in 1..Len(zf.manifest) :
            /\ ~DeclaredWorksheet(zf.manifest[i].rid) => pc = "raised"
            /\ pc # "raised" =>
                  \E k \in 1..Len(sheet_targets) :
                      sheet_targets[k].name = zf.manifest[i].name

----------------------------------------------------------------------------
(* The cell decoder against its reference *)

\* the first cell of the first row: in SpecCells, the cell A7
ProbeCell == LogSheet[1].cells[1]

\* a shared-string cell whose stored text is an index 0, 1, 2, ...
IndexCell(cell) ==
    cell.hasv /\ cell.t = "s" /\ cell.raw # <<>> /\ AllDigits(cell.raw)

\* the cases the reference speaks of
Referenced(cell) ==
    ~cell.hasv \/ cell.t # "s" \/ zf.shared = <<>> \/ IndexCell(cell)

\* no value; the raw text; entry i of a present table of n entries for
\* i < n, IndexError for i >= n
ReferenceValue(cell) ==
    IF ~cell.hasv THEN None
    ELSE IF cell.t # "s" \/ zf.shared = <<>> THEN Str(cell.raw)
    ELSE IF DigitsToNat(cell.raw) < Len(zf.shared[1])
    THEN Str(shared_strings[DigitsToNat(cell.raw) + 1])
    ELSE Raise("IndexError")

\* C9: the decoder agrees with the reference: no value for a cell without
\* <v>, the raw text for a cell that is not a shared string and for every
\* cell when the shared-strings part is absent, entry i of a present table
\* for 0 <= i < n, and a load that fails with IndexError for i >= n. The
\* value shows in the record of row 7, which holds it as tag_number.
C9_DecoderAgreesWithReference ==
    (pc \in {"read_dropdowns", "returned", "raised"} /\ Referenced(ProbeCell)) =>
        LET ref == ReferenceValue(ProbeCell)
        IN  IF ref.kind = "raise"
            THEN pc = "raised" /\ error = ref.exc
            ELSE /\ pc # "raised"
                 /\ records = IF ref.kind = "None" \/ strip(ref.s) = <<>> THEN <<>>
                              ELSE <<[tag_number |-> strip(ref.s)]>>

----------------------------------------------------------------------------
(* SpecLoad: a workbook in which up to MaxMalformed parts are not          *)
(* well-formed, with or without shared strings, with sheet names that do   *)
(* or do not tell the sheets, and with or without a shared-string cell     *)
(* whose index is out of range on either sheet.                            *)

MaxMalformed == 1

ArchiveParts == {SharedStringsPart, WorkbookPart, RelsPart, Part1, Part2}

PlainManifest ==
    << [name |-> <<"D", "a", "t", "a">>, rid |-> <<"r", "I", "d", "1">>],
       [name |-> <<"L", "i", "s", "t", "s">>, rid |-> <<"r", "I", "d", "2">>] >>

BadLogSheet ==
    StdLogSheet \o <<Row(<<<<"8">>>>, <<Cell(<<"A", "8">>, "s", <<"9">>)>>)>>

BadDropSheet ==
    StdDropSheet \o <<Row(<<<<"3">>>>, <<Cell(<<"C", "3">>, "s", <<"9">>)>>)>>

InitLoad ==
    /\ \E shared \in {<<>>, <<StdTable>>},
          manifest \in {StdManifest, PlainManifest},
          logsheet \in {StdLogSheet, BadLogSheet},
          dropsheet \in {StdDropSheet, BadDropSheet},
          bad \in {b \in SUBSET ArchiveParts : Cardinality(b) <= MaxMalformed} :
             LoadStarts([Workbook(shared, logsheet, dropsheet)
                            EXCEPT !.manifest = manifest, !.malformed = bad])
    /\ SerialIdle
    /\ AppIdle

SpecLoad == InitLoad /\ [][Next]_vars

Terminal == pc \in {"returned", "raised"}

\* the stage that follows a stage that did not fail
NextStage(stage) ==
    CASE stage = "open" -> "shared"
      [] stage = "shared" -> "targets"
      [] stage = "targets" -> "find_log"
      [] stage = "find_log" -> "find_dropdown"
      [] stage = "find_dropdown" -> "read_records"
      [] stage = "read_records" -> "read_dropdowns"
      [] stage = "read_dropdowns" -> "returned"

Complete ==
    /\ result.kind = "ExcelData"
    /\ result.records = records
    /\ DOMAIN result.dropdowns = DropdownKeys

\* C11: a load ends returned or raised and in both the archive is closed;
\* returned, every stage ran in order and the ExcelData holds the records
\* and the three lists; raised, one stage failed with one error, no stage
\* ran after it and no ExcelData exists; before the end there is no
\* ExcelData either, and a load that has not ended can go on.
C11_AllOrNothing ==
    /\ [](Terminal => ~zip_open)
    /\ [](pc = "returned" => error = "" /\ Complete)
    /\ [](pc = "raised" => error # "" /\ result = None)
    /\ [](~Terminal => result = None /\ error = "" /\ ENABLED Next)
    /\ [][~Terminal /\ (pc' = NextStage(pc) \/ pc' = "raised")]_vars

\* a cell of the dropdown sheet has a shared-string index out of range:
\* the records were extracted, and yet nothing is returned and the archive
\* is closed
C11_Witness ==
    /\ pc = "raised"
    /\ error = "IndexError"
    /\ records = <<[tag_number |-> <<"T", "-", "1">>]>>
    /\ result = None
    /\ ~zip_open

----------------------------------------------------------------------------
(* SpecFields: the log sheets of SpecRecords and those of SpecDates *)

InitFields == InitRecords \/ InitDates

SpecFields == InitFields /\ [][Next]_vars

FieldNames == {FIELD_MAP[column] : column \in DOMAIN FIELD_MAP}

\* the row has a cell of the field's column with text left after trimming
RowHasField(row, field) ==
    \E j \in 1..Len(row.cells) :
        /\ Mapped(row.cells[j])
        /\ FIELD_MAP[LeadingUpper(row.cells[j].r)] = field
        /\ TrimmedText(row.cells[j]) # <<>>

\* C12: in every returned record each key is a field name of FIELD_MAP and
\* each value is a non-empty text that neither starts nor ends with
\* whitespace; a record has at least one field, and it has a field only
\* when its row has a cell of that column that is not absent, empty or
\* whitespace-only.
C12_RecordFieldsNonEmpty ==
    pc = "returned" =>
        \A k \in 1..Len(result.records) :
            LET record == result.records[k]
                row == LogSheet[Nth(Contributing(LogSheet), k)]
            IN  /\ DOMAIN record # {}
                /\ DOMAIN record \subseteq FieldNames
                /\ \A field \in DOMAIN record :
                      /\ record[field] # <<>>
                      /\ record[field][1] \notin Whitespace
                      /\ record[field][Len(record[field])] \notin Whitespace
                      /\ RowHasField(row, field)

\* a row 7 with blanks in column A and a padded shared string in column C:
\* the record has part_description alone
C12_Witness ==
    /\ pc = "returned"
    /\ LogSheet = << Row(<<<<"7">>>>, <<Cell(<<"A", "7">>, "str", <<" ", "\t">>),
                                       Cell(<<"C", "7">>, "s", <<"1">>)>>) >>
    /\ result.records = <<[part_description |-> <<"B", "o", "l", "t">>]>>


----------------------------------------------------------------------------
(* The tag store (src/database.py)                                         *)
(*                                                                         *)
(* A dict of the code is a function from its keys to values; a value is    *)
(* None, Str(text) or Num(n).  A row of tags is such a function over "id"  *)
(* and the columns.  The store is [rows, last_id]: the rows in rowid       *)
(* order and the last rowid AUTOINCREMENT handed out.                       *)

Num(n) == [kind |-> "int", n |-> n]

TAG_COLUMNS ==
    << "tag_number", "part_description", "rejection_type", "rejection_class",
       "defect_description", "rejected_by", "containment_date",
       "total_rejected_qty_initial", "mfg_date", "mfg_shift", "supplier",
       "total_rejected_qty_final", "disposition", "authorized_by",
       "date_authorized", "date_sort_rework", "good_pcs", "reworked_pcs",
       "scrap_pcs", "complete", "closed_date", "closed_by", "qad_number",
       "qad_date", "completed_by", "is_closed", "created_at", "updated_at" >>

\* datetime.utcnow().isoformat(timespec="seconds"), the same at every call
utcnow == <<"2", "0", "2", "5", "-", "1", "1", "-", "0", "5", "T", "0", "8", ":", "0", "0", ":", "0", "0">>

\* datetime.utcnow().strftime("%y%m%d"): every request is made on one day
today == <<"2", "5", "1", "1", "0", "5">>

\* record.get(key)
Get(record, key) == IF key \in DOMAIN record THEN record[key] ELSE None

\* (value or "") of a string or None
OrEmpty(v) == IF v.kind = "str" THEN v.s ELSE <<>>

\* record[key] = v
SetItem(record, key, v) ==
    [k \in DOMAIN record \cup {key} |-> IF k = key THEN v ELSE record[k]]

\* record.setdefault(key, v)
SetDefault(record, key, v) ==
    IF key \in DOMAIN record THEN record ELSE SetItem(record, key, v)

determine_is_closed(record) ==
    LET closed_date == strip(OrEmpty(Get(record, "closed_date")))
        complete == lower(strip(OrEmpty(Get(record, "complete"))))
    IN  IF closed_date # <<>> THEN 1
        ELSE IF complete \in {<<"y", "e", "s">>, <<"y">>, <<"t", "r", "u", "e">>, <<"c", "l", "o", "s", "e", "d">>, <<"c", "o", "m", "p", "l", "e", "t", "e">>}
        THEN 1
        ELSE IF complete \in {<<"1">>, <<"c", "l", "o", "s", "e", "d">>, <<"d", "o", "n", "e">>} THEN 1
        ELSE 0

clean_record(record) ==
    [key \in DOMAIN record \cap Range(TAG_COLUMNS) |->
        IF record[key].kind = "str"
        THEN With(strip(record[key].s),
                  LAMBDA text : IF text = <<>> THEN None ELSE Str(text))
        ELSE record[key]]

\* the row an INSERT of these columns stores: the columns it does not name
\* are NULL, is_closed is 0 by default
NewRow(id, values) ==
    [c \in {"id"} \cup Range(TAG_COLUMNS) |->
        IF c = "id" THEN Num(id)
        ELSE IF c \in DOMAIN values THEN values[c]
        ELSE IF c = "is_closed" THEN Num(0)
        ELSE None]

TagNumbers(rows) == {rows[i]["tag_number"] : i \in 1..Len(rows)}

\* tag_number TEXT UNIQUE NOT NULL
ViolatesConstraint(rows, values) ==
    \/ Get(values, "tag_number").kind # "str"
    \/ Get(values, "tag_number") \in TagNumbers(rows)

\* INSERT OR IGNORE INTO tags: a row that violates a constraint is skipped
\* and nothing is raised; the rowid it was given is not handed out again
InsertOrIgnore(db, values) ==
    IF ViolatesConstraint(db.rows, values)
    THEN [rows |-> db.rows, last_id |-> db.last_id + 1]
    ELSE [rows    |-> Append(db.rows, NewRow(db.last_id + 1, values)),
          last_id |-> db.last_id + 1]

\* the dict of a workbook record: every value is a string
Dict(record) == [f \in DOMAIN record |-> Str(record[f])]

\* lines 140-144: the values seed_from_excel inserts for one record
SeedValues(record) ==
    LET stamped == SetDefault(SetDefault(Dict(record), "created_at", Str(utcnow)),
                              "updated_at", Str(utcnow))
    IN  clean_record(SetItem(stamped, "is_closed", Num(determine_is_closed(stamped))))

RECURSIVE seed_from_excel(_, _)
seed_from_excel(db, recs) ==
    IF recs = <<>> THEN db
    ELSE With(InsertOrIgnore(db, SeedValues(Head(recs))),
              LAMBDA next : seed_from_excel(next, Tail(recs)))

\* DELETE FROM dropdown_options WHERE field = ?, then INSERT OR IGNORE of
\* each (field, option): UNIQUE(field, value)
RECURSIVE InsertOptions(_, _, _)
InsertOptions(rows, field, options) ==
    IF options = <<>> THEN rows
    ELSE With(IF [field |-> field, value |-> Head(options)] \in Range(rows)
              THEN rows
              ELSE Append(rows, [field |-> field, value |-> Head(options)]),
              LAMBDA next : InsertOptions(next, field, Tail(options)))

ReplaceOptions(rows, field, options) ==
    InsertOptions(SelectSeq(rows, LAMBDA row : row.field # field), field, options)

\* the keys of the dict _read_dropdowns builds, in insertion order
upsert_dropdowns(rows, dropdowns) ==
    ReplaceOptions(
        ReplaceOptions(
            ReplaceOptions(rows, "rejection_type", dropdowns["rejection_type"]),
            "rejection_class", dropdowns["rejection_class"]),
        "disposition", dropdowns["disposition"])

fetch_dropdowns(rows) ==
    [field \in {rows[i].field : i \in 1..Len(rows)} |->
        LET own == SelectSeq(rows, LAMBDA row : row.field = field)
        IN  [i \in 1..Len(own) |-> own[i].value]]

\* tag_number LIKE 'prefix%': LIKE does not tell the case of ASCII letters
Like(text, prefix) == startswith(lower(text), lower(prefix))

\* "{count:03d}"
ThreeDigits(count) == IF count < 1000 THEN Pad(count, 3) ELSE NatToDigits(count)

generate_tag_number(db) ==
    LET prefix == <<"N", "C", "-">> \o today \o <<"-">>
        count == Cardinality({i \in 1..Len(db.rows) :
                                 Like(db.rows[i]["tag_number"].s, prefix)}) + 1
    IN  prefix \o ThreeDigits(count)

get_tag(db, tag_id) ==
    LET hits == {i \in 1..Len(db.rows) : db.rows[i]["id"] = Num(tag_id)}
    IN  IF hits = {} THEN None ELSE db.rows[CHOOSE i \in hits : TRUE]

\* a plain INSERT: a constraint violation raises IntegrityError and the
\* statement stores nothing
insert_tag(db, data) ==
    LET stamped == SetDefault(SetDefault(data, "created_at", Str(utcnow)),
                              "updated_at", Str(utcnow))
        full == SetItem(stamped, "is_closed", Num(determine_is_closed(stamped)))
        values == [c \in DOMAIN full \cap Range(TAG_COLUMNS) |-> full[c]]
    IN  IF ViolatesConstraint(db.rows, values) THEN Raise("IntegrityError")
        ELSE [kind      |-> "ok",
              db        |-> [rows    |-> Append(db.rows, NewRow(db.last_id + 1, values)),
                             last_id |-> db.last_id + 1],
              lastrowid |-> db.last_id + 1]

\* UPDATE tags SET <the columns data holds> WHERE id = ?
update_tag(db, tag_id, data) ==
    LET stamped == SetItem(data, "updated_at", Str(utcnow))
        full == SetItem(stamped, "is_closed", Num(determine_is_closed(stamped)))
        values == [c \in DOMAIN full \cap Range(TAG_COLUMNS) |-> full[c]]
        others == SelectSeq(db.rows, LAMBDA row : row["id"] # Num(tag_id))
    IN  IF /\ "tag_number" \in DOMAIN values
           /\ get_tag(db, tag_id) # None
           /\ ViolatesConstraint(others, values)
        THEN Raise("IntegrityError")
        ELSE [kind |-> "ok",
              db   |-> [rows |-> [i \in 1..Len(db.rows) |->
                                    IF db.rows[i]["id"] = Num(tag_id)
                                    THEN [c \in DOMAIN db.rows[i] |->
                                            IF c \in DOMAIN values THEN values[c]
                                            ELSE db.rows[i][c]]
                                    ELSE db.rows[i]],
                        last_id |-> db.last_id]]

delete_tag(db, tag_id) ==
    [rows    |-> SelectSeq(db.rows, LAMBDA row : row["id"] # Num(tag_id)),
     last_id |-> db.last_id]

----------------------------------------------------------------------------
(* The request handlers (src/app.py)                                       *)
(*                                                                         *)
(* A submitted form is a function from input names to text.  A request is  *)
(* the before_request hook, then one view function; the hook's call of     *)
(* load_excel is the load modelled above, run on the workbook at           *)
(* EXCEL_PATH, which is taken to exist.                                    *)

\* the name of every field of FORM_SECTIONS, in order
FIELD_CONFIG ==
    << "tag_number", "part_description", "rejection_type", "rejection_class",
       "defect_description", "rejected_by", "containment_date",
       "total_rejected_qty_initial", "mfg_date", "mfg_shift", "supplier",
       "total_rejected_qty_final", "disposition", "authorized_by",
       "date_authorized", "date_sort_rework", "good_pcs", "reworked_pcs",
       "scrap_pcs", "closed_date", "closed_by", "qad_number", "qad_date",
       "completed_by" >>

SELECT_FIELDS == {"rejection_type", "rejection_class", "disposition"}

\* f"{name}_other"
OtherKey(name) ==
    CASE name = "rejection_type" -> "rejection_type_other"
      [] name = "rejection_class" -> "rejection_class_other"
      [] name = "disposition" -> "disposition_other"

OtherChoice == <<"_", "_", "o", "t", "h", "e", "r", "_", "_">>

\* value.strip() or None
StripOrNone(text) ==
    With(strip(text), LAMBDA stripped : IF stripped = <<>> THEN None ELSE Str(stripped))

\* lines 175-182, for one field
NormalizeField(form, name) ==
    LET posted == IF name \in DOMAIN form THEN Str(form[name]) ELSE None
        chosen == IF name \in SELECT_FIELDS /\ posted = Str(OtherChoice)
                  THEN StripOrNone(IF OtherKey(name) \in DOMAIN form
                                   THEN form[OtherKey(name)] ELSE <<>>)
                  ELSE posted
    IN  IF chosen.kind = "str" THEN StripOrNone(chosen.s) ELSE None

\* the fields of type date are the six of DATE_FIELDS
normalize_form_data(form) ==
    [name \in Range(FIELD_CONFIG) |->
        With(NormalizeField(form, name), LAMBDA v :
            IF name \in DATE_FIELDS /\ (v = None \/ v = Str(<<>>)) THEN None ELSE v)]

\* select_values and other_values of one select field
prepare_form_context(record, dropdowns, field) ==
    LET current == strip(OrEmpty(Get(record, field)))
        options == IF field \in DOMAIN dropdowns THEN dropdowns[field] ELSE <<>>
    IN  IF current # <<>> /\ current \notin Range(options)
        THEN [select |-> OtherChoice, other |-> current]
        ELSE [select |-> current, other |-> <<>>]

\* the edit form as rendered for a row, submitted as it is: every input
\* holds the row's value, the empty string for NULL
PrefilledForm(row, dropdowns) ==
    [name \in Range(FIELD_CONFIG) \cup {OtherKey(f) : f \in SELECT_FIELDS} |->
        IF name \in SELECT_FIELDS
        THEN prepare_form_context(row, dropdowns, name).select
        ELSE IF \E f \in SELECT_FIELDS : name = OtherKey(f)
        THEN prepare_form_context(row, dropdowns,
                                  CHOOSE f \in SELECT_FIELDS : name = OtherKey(f)).other
        ELSE OrEmpty(row[name])]

\* the forms the edit page posts: unchanged, with a closed date entered,
\* with the closed date cleared
EditForms(row, dropdowns) ==
    With(PrefilledForm(row, dropdowns), LAMBDA form :
        { form,
          [form EXCEPT !["closed_date"] = <<"2", "0", "2", "5", "-", "1", "1", "-", "0", "5">>],
          [form EXCEPT !["closed_date"] = <<>>] })

BlankForm ==
    [name \in Range(FIELD_CONFIG) \cup {OtherKey(f) : f \in SELECT_FIELDS} |-> <<>>]

\* the forms the create page posts, each with the tag number left empty:
\* without a part description, with one, with one and a closed date
CreateForms ==
    { BlankForm,
      [BlankForm EXCEPT !["part_description"] = <<" ", "B", "o", "l", "t", " ">>],
      [BlankForm EXCEPT !["part_description"] = <<"N", "u", "t">>,
                        !["closed_date"] = <<"2", "0", "2", "5", "-", "1", "1", "-", "0", "5">>] }

MaxRequests == 3

Store == [rows |-> tags, last_id |-> last_id]

\* load_excel(excel_file) is called
StartLoad(wb) ==
    /\ zf' = wb
    /\ pc' = "open"
    /\ zip_open' = FALSE
    /\ shared_strings' = <<>>
    /\ sheet_targets' = <<>>
    /\ log_sheet_path' = None
    /\ dropdown_sheet_path' = None
    /\ records' = <<>>
    /\ result' = None
    /\ error' = ""

\* before_request, ensure_bootstrap_data lines 55-70: a request arrives;
\* the workbook is loaded when the tags table or the dropdown table is empty
BeforeRequest ==
    /\ rpc = "before"
    /\ requests < MaxRequests
    /\ requests' = requests + 1
    /\ response' = ""
    /\ LET needs_seed == Len(tags) = 0
           needs_dropdowns == DOMAIN fetch_dropdowns(dropdown_options) = {}
       IN  IF ~(needs_seed \/ needs_dropdowns)
           THEN /\ rpc' = "route"
                /\ UNCHANGED <<needs, load_vars>>
           ELSE /\ needs' = [seed |-> needs_seed, dropdowns |-> needs_dropdowns]
                /\ rpc' = "loading"
                /\ StartLoad(excel_file)
    /\ UNCHANGED <<excel_file, tags, last_id, dropdown_options, deleted,
                   serial_vars>>

\* ensure_bootstrap_data lines 70-74: load_excel has returned or raised
Bootstrap ==
    /\ rpc = "loading"
    /\ pc \in {"returned", "raised"}
    /\ IF pc = "raised"
       THEN /\ response' = error
            /\ rpc' = "before"
            /\ UNCHANGED <<tags, last_id, dropdown_options>>
       ELSE /\ \E db \in {IF needs.seed THEN seed_from_excel(Store, result.records)
                          ELSE Store} :
                  /\ tags' = db.rows
                  /\ last_id' = db.last_id
            /\ dropdown_options' =
                  IF needs.dropdowns
                  THEN upsert_dropdowns(dropdown_options, result.dropdowns)
                  ELSE dropdown_options
            /\ rpc' = "route"
            /\ UNCHANGED response
    /\ UNCHANGED <<excel_file, needs, requests, deleted, load_vars, serial_vars>>

\* a GET: the dashboard, a list, a tag, a form
ViewPage ==
    /\ rpc = "route"
    /\ response' = "200"
    /\ rpc' = "before"
    /\ UNCHANGED <<excel_file, tags, last_id, dropdown_options, needs, requests,
                   deleted, load_vars, serial_vars>>

\* create_tag, POST
CreateTag ==
    /\ rpc = "route"
    /\ \E form \in CreateForms :
        \E data \in {normalize_form_data(form)} :
            IF data["part_description"] = None
            THEN /\ response' = "200"
                 /\ UNCHANGED <<tags, last_id>>
            ELSE \E done \in {insert_tag(Store,
                                 IF data["tag_number"] = None
                                 THEN SetItem(data, "tag_number",
                                              Str(generate_tag_number(Store)))
                                 ELSE data)} :
                    IF done.kind = "raise"
                    THEN /\ response' = done.exc
                         /\ UNCHANGED <<tags, last_id>>
                    ELSE /\ tags' = done.db.rows
                         /\ last_id' = done.db.last_id
                         /\ response' = "302"
    /\ rpc' = "before"
    /\ UNCHANGED <<excel_file, dropdown_options, needs, requests, deleted,
                   load_vars, serial_vars>>

\* edit_tag, POST
EditTag ==
    /\ rpc = "route"
    /\ \E tag_id \in 1..last_id :
        \E row \in {get_tag(Store, tag_id)} :
            IF row = None
            THEN /\ response' = "404"
                 /\ UNCHANGED <<tags, last_id>>
            ELSE \E form \in EditForms(row, fetch_dropdowns(dropdown_options)) :
                 \E done \in {update_tag(Store, tag_id,
                                 SetItem(normalize_form_data(form), "tag_number",
                                         row["tag_number"]))} :
                    IF done.kind = "raise"
                    THEN /\ response' = done.exc
                         /\ UNCHANGED <<tags, last_id>>
                    ELSE /\ tags' = done.db.rows
                         /\ last_id' = done.db.last_id
                         /\ response' = "302"
    /\ rpc' = "before"
    /\ UNCHANGED <<excel_file, dropdown_options, needs, requests, deleted,
                   load_vars, serial_vars>>

\* delete_tag, POST
DeleteTag ==
    /\ rpc = "route"
    /\ \E tag_id \in 1..last_id :
        \E row \in {get_tag(Store, tag_id)} :
            IF row = None
            THEN /\ response' = "404"
                 /\ UNCHANGED <<tags, last_id, deleted>>
            ELSE /\ tags' = delete_tag(Store, tag_id).rows
                 /\ deleted' = deleted \cup {row["tag_number"]}
                 /\ response' = "302"
                 /\ UNCHANGED last_id
    /\ rpc' = "before"
    /\ UNCHANGED <<excel_file, dropdown_options, needs, requests, load_vars,
                   serial_vars>>

NextApp ==
    \/ BeforeRequest
    \/ Next
    \/ Bootstrap
    \/ ViewPage
    \/ CreateTag
    \/ EditTag
    \/ DeleteTag

----------------------------------------------------------------------------
(* SpecApp: the application starts on an empty database; the log sheet of  *)
(* the workbook has up to MaxSeedRows rows, from row 7 on.                 *)

MaxSeedRows == 2

\* a tag closed by its complete column, the same tag number again, a row
\* without a tag number, a tag with a closed date
SeedRows ==
    { << [col |-> <<"A">>, raw |-> <<"T", "-", "1">>], [col |-> <<"A", "M">>, raw |-> <<"Y", "e", "s">>] >>,
      << [col |-> <<"A">>, raw |-> <<"T", "-", "1">>], [col |-> <<"C">>, raw |-> <<"N", "u", "t">>] >>,
      << [col |-> <<"C">>, raw |-> <<"B", "o", "l", "t">>] >>,
      << [col |-> <<"A">>, raw |-> <<"T", "-", "2">>], [col |-> <<"A", "O">>, raw |-> <<"4", "5", "0", "0", "0">>] >> }

SeedRow(cells, i) ==
    Row(<<NatToDigits(HeaderRows + i - 1)>>,
        [j \in 1..Len(cells) |->
            Cell(cells[j].col \o NatToDigits(HeaderRows + i - 1), "", cells[j].raw)])

SeedSheets ==
    UNION { { [i \in 1..n |-> SeedRow(rows[i], i)] : rows \in [1..n -> SeedRows] }
            : n \in 0..MaxSeedRows }

InitApp ==
    /\ \E logsheet \in SeedSheets :
          excel_file = Workbook(<<StdTable>>, logsheet, StdDropSheet)
    /\ tags = <<>>
    /\ last_id = 0
    /\ dropdown_options = <<>>
    /\ rpc = "before"
    /\ needs = [seed |-> FALSE, dropdowns |-> FALSE]
    /\ requests = 0
    /\ response = ""
    /\ deleted = {}
    /\ LoadIdle
    /\ SerialIdle

SpecApp == InitApp /\ [][NextApp]_vars

----------------------------------------------------------------------------
(* C13: seeding an empty tags table from the records of a load *)

\* the bootstrap step that seeds: load has returned, the table is empty
Seeding == rpc = "loading" /\ pc = "returned" /\ needs.seed /\ tags = <<>>

\* the row stored for a workbook record
RowOfRecord(row, record) ==
    /\ \A field \in DOMAIN record : row[field] = Str(record[field])
    /\ row["is_closed"] \in {Num(0), Num(1)}
    /\ row["created_at"].kind = "str"
    /\ row["updated_at"].kind = "str"

\* C13: when the bootstrap seeds the empty tags table from the n records
\* that load returned, the table afterwards holds exactly n rows, the k-th
\* row being the one of the k-th record, with its is_closed flag and its
\* created and updated timestamps set.
C13_SeedStoresEveryRecord ==
    [][Seeding /\ rpc' = "route" =>
          /\ Len(tags') = Len(result.records)
          /\ \A k \in 1..Len(tags') : RowOfRecord(tags'[k], result.records[k])]_vars

----------------------------------------------------------------------------
(* C14: is_closed against the row's own closed_date and complete *)

\* a view function ran and no row changed in a column other than
\* is_closed and updated_at
NothingEdited ==
    /\ rpc = "route"
    /\ rpc' = "before"
    /\ Len(tags') = Len(tags)
    /\ \A i \in 1..Len(tags) :
          \A c \in DOMAIN tags[i] \ {"is_closed", "updated_at"} :
              tags'[i][c] = tags[i][c]

\* C14: whatever requests were served (the seeding bootstrap, create, edit
\* and delete posts), the is_closed column of every stored tag equals
\* determine_is_closed of that row's stored closed_date and complete; and a
\* request that changes no other column of any row, as a save of the
\* unchanged edit form, leaves every is_closed as it was.
C14_IsClosedFollowsRow ==
    /\ [](\A i \in 1..Len(tags) :
              tags[i]["is_closed"] = Num(determine_is_closed(tags[i])))
    /\ [][NothingEdited =>
              \A i \in 1..Len(tags) : tags'[i]["is_closed"] = tags[i]["is_closed"]]_vars

----------------------------------------------------------------------------
(* C15: the generated tag number against the numbers in the table *)

\* C15: after any creations with a generated number and any deletions made
\* on one day, the number generate_tag_number returns is held by no row of
\* the tags table, and no request has ended in the IntegrityError of a
\* violated UNIQUE constraint.
C15_GeneratedNumberIsFree ==
    /\ Str(generate_tag_number(Store)) \notin TagNumbers(tags)
    /\ response # "IntegrityError"

----------------------------------------------------------------------------
(* C16: the bootstrap and the tags that were deleted *)

\* the bootstrap of a request completes
Bootstrapped == rpc = "loading" /\ rpc' = "route"

\* C16: the bootstrap run before a request never re-creates a tag that
\* delete_tag removed: every row the tags table holds after a bootstrap,
\* and whose tag number was deleted before, was in the table before that
\* bootstrap, also when the deletion had left the table empty.
C16_DeletedTagStaysDeleted ==
    [][Bootstrapped =>
          \A i \in 1..Len(tags') :
              tags'[i]["tag_number"] \in deleted => tags'[i] \in Range(tags)]_vars

============================================================================
